---- MODULE Spec2Model ----
(***************************************************************************)
(* Model of app.py (Chess.io).                                             *)
(*                                                                         *)
(* Private rooms: the in-memory table room_players, the persisted rooms    *)
(* table, and the Socket.IO handlers on_join, on_toggle_ready, on_move,    *)
(* on_disconnect and on_leave, together with the /room/<code> route that   *)
(* inserts the row.                                                        *)
(*                                                                         *)
(* Ranked mode: the users row of one account, the games ledger, the        *)
(* session, and the route /api/make-move with get_bot_move, get_bot_depth, *)
(* handle_game_over and calculate_elo_change.                              *)
(*                                                                         *)
(* python-chess is an external library.  It is modelled by a small         *)
(* abstract game: a position is the list of moves played, White moves on   *)
(* even plies, every move is legal until the game is over, the move b      *)
(* mates, and a position of MaxPly plies without mate is drawn.            *)
(*                                                                         *)
(* Spec explores three connections on one room code, SpecRooms a           *)
(* connection that uses two room codes, SpecConc and SpecToggle the        *)
(* statements of interleaved handlers, SpecRanked the ranked mode and      *)
(* SpecDepth the function get_bot_depth.                                   *)
(***************************************************************************)
EXTENDS Integers, Sequences, FiniteSets, TLC

\* ------------------------------------------------------------------ bounds
MaxPly == 2

\* Connection identities (request.sid) and room codes (data['room']).
Sids  == {"s1", "s2", "s3"}
Rooms == {"R1", "R2"}

\* ------------------------------------------------------- the rules engine
Moves == {"a", "b"}
\* A string chess.Move.from_uci rejects (raises ValueError).
BadUci == "zz"
\* A string chess.Board() rejects (raises ValueError).
BadFen == <<"?">>

RECURSIVE SeqsUpTo(_)
SeqsUpTo(n) ==
    IF n = 0 THEN {<<>>}
    ELSE LET S == SeqsUpTo(n - 1)
         IN  S \cup {Append(p, m) : p \in {q \in S : Len(q) = n - 1}, m \in Moves}

Positions == SeqsUpTo(MaxPly)

\* chess.Board().fen()
StartFen == <<>>

\* board.turn: TRUE (chess.WHITE) when White is to move.
turn(board) == Len(board) % 2 = 0

\* board.is_game_over(): the move b mates, and the game is drawn at MaxPly plies
is_game_over(board) ==
    \/ Len(board) >= MaxPly
    \/ Len(board) > 0 /\ board[Len(board)] = "b"

\* board.legal_moves: none once the game is over
legal_moves(board) == IF is_game_over(board) THEN {} ELSE Moves

\* board.push(move); board.fen()
push(board, m) == Append(board, m)

\* board.result(): "1-0" when White has mated, "0-1" when Black has, a draw
\* for any other end, "*" while playing
result(board) ==
    IF ~is_game_over(board) THEN "*"
    ELSE IF board # <<>> /\ board[Len(board)] = "b"
         THEN IF turn(board) THEN "0-1" ELSE "1-0"
         ELSE "1/2-1/2"

\* -------------------------------------------------------------- the state
VARIABLES
    room_keys,     \* keys of the dict room_players, in insertion order
    room_players,  \* values of the dict room_players (EmptyRoom when no key)
    rooms,         \* the rooms table of the database
    sio_rooms,     \* Socket.IO room membership (join_room / leave_room)
    disconnected,  \* connections whose disconnect event has been handled
    started,       \* history: game_start was broadcast and both seats kept since
    out,           \* what the last handler emitted, in order
    pc,            \* line each connection's running handler is at
    loc,           \* locals of each connection's running handler
    users,         \* the users row of the account playing ranked games
    games,         \* the rows of the games table, in insertion order
    session,       \* session['elo'] of the account's browser session
    req,           \* each request to /api/make-move: position, locals, response
    probe          \* the argument and the result of a get_bot_depth call

\* The state of the private rooms and the state of the ranked mode.
lobby  == <<room_keys, room_players, rooms, sio_rooms, disconnected, started, out,
            pc, loc>>
ranked == <<users, games, session, req, probe>>

vars == <<room_keys, room_players, rooms, sio_rooms, disconnected, started, out,
          pc, loc, users, games, session, req, probe>>

NoFn == [s \in {} |-> FALSE]

\* {'players': [], 'ready': {}, 'colors': {}}
EmptyRoom == [players |-> <<>>, ready |-> NoFn, colors |-> NoFn]

\* A rooms row that does not exist.
NoRow == [present |-> FALSE, board_state |-> StartFen, current_turn |-> "white",
          status |-> "waiting"]

Range(f) == {f[i] : i \in DOMAIN f}

\* room_code in room_players
HasRoom(rk, rc) == rc \in Range(rk)

\* x in room_players[room_code]['players']
InPlayers(r, sid) == sid \in Range(r.players)

\* sum(1 for ready in room['ready'].values() if ready)
ready_count(r) == Cardinality({s \in DOMAIN r.ready : r.ready[s]})

\* len(room['players'])
player_count(r) == Len(r.players)

\* d[k] = v on a dict
DictSet(d, k, v) == [x \in (DOMAIN d) \cup {k} |-> IF x = k THEN v ELSE d[x]]

\* del d[k] when k in d
DictDel(d, k) == [x \in (DOMAIN d) \ {k} |-> d[x]]

\* list.remove(x): drops the first occurrence
RECURSIVE ListRemove(_, _)
ListRemove(l, x) ==
    IF l = <<>> THEN <<>>
    ELSE IF Head(l) = x THEN Tail(l)
    ELSE <<Head(l)>> \o ListRemove(Tail(l), x)

\* emit(event, data) goes to the caller, emit(event, data, room=code) to the
\* room; sid is request.sid of the handler that emits.
Emit(sid, event, to, data) == [sid |-> sid, event |-> event, to |-> to, data |-> data]

\* The history flag of a room whose entry goes from r to r2: it is cleared as
\* soon as a connection that held a colour no longer holds it.
seats_kept(st, room_code, r, r2) ==
    IF \A s \in DOMAIN r.colors : s \in DOMAIN r2.colors /\ r2.colors[s] = r.colors[s]
    THEN st ELSE [st EXCEPT ![room_code] = FALSE]

\* Locals of a handler that is not running (room_code, player_count and
\* ready_count are the locals of on_join and on_toggle_ready); created is
\* history: the handler ran the assignment of line 397.
NoLocals == [room_code |-> "", player_count |-> 0, ready_count |-> 0,
             created |-> FALSE]

\* ---------------------------------------------------- ranked mode, state
\* The requests to /api/make-move that may be in flight for the account.
Reqs == {"q1", "q2"}

\* The users row after registration: the column defaults of lines 31-34.
NewUser == [elo |-> 1000, peak_elo |-> 1000, games_played |-> 0, games_won |-> 0]

\* get_bot_move has not been called by the request.
NoCall == <<"no call">>

\* A request that has not been made: pc is the line it is at, board and
\* bot_move are the locals of make_move, user is the row read at line 312,
\* resp is the response; asked, oracle and depth are history: the position
\* given to get_bot_move, what the engine did, and the depth it was given.
NoReq == [pc |-> "idle", board |-> StartFen, bot_move |-> "None", user |-> NewUser,
          resp |-> "", asked |-> NoCall, oracle |-> "", depth |-> 0]

\* No call of get_bot_depth yet.
NoProbe == [elo |-> 1000, depth |-> 0, called |-> FALSE]

InitLobby ==
    /\ room_keys = <<>>
    /\ room_players = [rc \in Rooms |-> EmptyRoom]
    /\ rooms = [rc \in Rooms |-> NoRow]
    /\ sio_rooms = [rc \in Rooms |-> {}]
    /\ disconnected = {}
    /\ started = [rc \in Rooms |-> FALSE]
    /\ out = <<>>
    /\ pc = [s \in Sids |-> "idle"]
    /\ loc = [s \in Sids |-> NoLocals]

\* The account is registered and logged in (lines 201-203).
InitRanked ==
    /\ users = NewUser
    /\ games = <<>>
    /\ session = NewUser.elo
    /\ req = [q \in Reqs |-> NoReq]

Init == InitLobby /\ InitRanked /\ probe = NoProbe

Idle == \A s \in Sids : pc[s] = "idle"

\* ------------------------------------------------------------ /room/<code>
\* Inserts the row of a room that has none.
room(code) ==
    /\ Idle
    /\ ~rooms[code].present
    /\ rooms' = [rooms EXCEPT ![code] =
                    [present |-> TRUE, board_state |-> StartFen,
                     current_turn |-> "white", status |-> "waiting"]]
    /\ out' = <<>>
    /\ UNCHANGED <<room_keys, room_players, sio_rooms, disconnected, started, pc, loc>>
    /\ UNCHANGED ranked

\* ------------------------------------------------------------------ on_join
\* The colour on_join gives for a player count.
join_color(n) == IF n = 1 THEN "white" ELSE IF n = 2 THEN "black" ELSE "spectator"

\* The room entry after lines 396-421 for connection sid.
join_entry(r, sid) ==
    LET r1 == IF InPlayers(r, sid) THEN r
              ELSE [r EXCEPT !.players = Append(@, sid),
                             !.ready = DictSet(@, sid, FALSE)]
        n  == player_count(r1)
    IN  IF n <= 2 THEN [r1 EXCEPT !.colors = DictSet(@, sid, join_color(n))]
        ELSE r1

on_join(sid, room_code) ==
    /\ Idle
    /\ sid \notin disconnected
    /\ LET r == join_entry(room_players[room_code], sid)
       IN  /\ sio_rooms' = [sio_rooms EXCEPT ![room_code] = @ \cup {sid}]
           /\ room_keys' = IF HasRoom(room_keys, room_code) THEN room_keys
                           ELSE Append(room_keys, room_code)
           /\ room_players' = [room_players EXCEPT ![room_code] = r]
           /\ started' = seats_kept(started, room_code, room_players[room_code], r)
           /\ out' = << Emit(sid, "assign_color", sid, <<join_color(player_count(r))>>),
                        Emit(sid, "player_status", room_code,
                             <<player_count(r), ready_count(r), 2>>) >>
    /\ UNCHANGED <<rooms, disconnected, pc, loc>>
    /\ UNCHANGED ranked

\* ---------------------------------------------------------- on_toggle_ready
on_toggle_ready(sid, room_code) ==
    /\ Idle
    /\ sid \notin disconnected
    /\ LET r0 == room_players[room_code]
       IN  IF ~HasRoom(room_keys, room_code) \/ sid \notin DOMAIN r0.ready
           THEN /\ out' = <<>>
                /\ UNCHANGED <<room_players, rooms, started>>
           ELSE LET r == [r0 EXCEPT !.ready[sid] = ~r0.ready[sid]]
                    status == Emit(sid, "player_status", room_code,
                                   <<player_count(r), ready_count(r), 2>>)
                IN  /\ room_players' = [room_players EXCEPT ![room_code] = r]
                    /\ IF ready_count(r) = 2 /\ player_count(r) = 2
                       THEN /\ out' = <<status, Emit(sid, "game_start", room_code, <<>>)>>
                            /\ rooms' = [rooms EXCEPT ![room_code].status =
                                            IF rooms[room_code].present
                                            THEN "playing" ELSE @]
                            /\ started' = [started EXCEPT ![room_code] = TRUE]
                       ELSE /\ out' = <<status>>
                            /\ UNCHANGED <<rooms, started>>
    /\ UNCHANGED <<room_keys, sio_rooms, disconnected, pc, loc>>
    /\ UNCHANGED ranked

\* ------------------------------------------------------------------ on_move
\* 'black' if board.turn else 'white', line 499
turn_column(board) == IF turn(board) THEN "black" ELSE "white"

\* What a client may put in data['move'] and data['board'].
MoveInputs  == Moves \cup {BadUci}
BoardInputs == Positions \cup {BadFen}

\* Lines 490-517 with the errors emitted to the room instead of the caller.
apply_move_errors_to_room(sid, room_code, move, board_fen) ==
    IF board_fen = BadFen
    THEN /\ out' = <<>>
         /\ UNCHANGED rooms
    ELSE IF move = BadUci
    THEN /\ out' = <<Emit(sid, "error", room_code, <<"Coup invalide">>)>>
         /\ UNCHANGED rooms
    ELSE IF move \in legal_moves(board_fen)
    THEN LET board == push(board_fen, move)
         IN  /\ rooms' = [rooms EXCEPT ![room_code] =
                             IF @.present
                             THEN [@ EXCEPT !.board_state = board,
                                            !.current_turn =
                                                IF turn(board) THEN "black"
                                                ELSE "white"]
                             ELSE @]
             /\ out' = <<Emit(sid, "move_made", room_code,
                              <<move, board, is_game_over(board),
                                IF is_game_over(board) THEN result(board)
                                ELSE "None">>)>>
    ELSE /\ out' = <<Emit(sid, "error", room_code, <<"Coup illégal">>)>>
         /\ UNCHANGED rooms

\* Lines 490-517: the game has started; parse, check and apply the move.
apply_move(sid, room_code, move, board_fen) ==
    IF board_fen = BadFen
    THEN \* chess.Board(board_fen) raises outside the try block
         /\ out' = <<>>
         /\ UNCHANGED rooms
    ELSE IF move = BadUci
    THEN /\ out' = <<Emit(sid, "error", sid, <<"Coup invalide">>)>>
         /\ UNCHANGED rooms
    ELSE IF move \in legal_moves(board_fen)
    THEN LET board == push(board_fen, move)
         IN  /\ rooms' = [rooms EXCEPT ![room_code] =
                             IF @.present
                             THEN [@ EXCEPT !.board_state = board,
                                            !.current_turn = turn_column(board)]
                             ELSE @]
             /\ out' = <<Emit(sid, "move_made", room_code,
                              <<move, board, is_game_over(board),
                                IF is_game_over(board) THEN result(board)
                                ELSE "None">>)>>
    ELSE /\ out' = <<Emit(sid, "error", sid, <<"Coup illégal">>)>>
         /\ UNCHANGED rooms

\* data['move'] and data['board'] are used only once both early returns are
\* passed, so they are chosen there.
on_move(sid, room_code) ==
    /\ Idle
    /\ sid \notin disconnected
    /\ LET r == room_players[room_code]
       IN  IF ~HasRoom(room_keys, room_code)
           THEN /\ out' = <<Emit(sid, "error", sid, <<"Salon introuvable">>)>>
                /\ UNCHANGED rooms
           ELSE IF ready_count(r) < 2 \/ player_count(r) < 2
           THEN /\ out' = <<Emit(sid, "error", sid,
                                 <<"Attendez que les 2 joueurs soient prêts">>)>>
                /\ UNCHANGED rooms
           ELSE \E move \in MoveInputs, board_fen \in BoardInputs :
                    apply_move(sid, room_code, move, board_fen)
    /\ UNCHANGED <<room_keys, room_players, sio_rooms, disconnected, started, pc, loc>>
    /\ UNCHANGED ranked

\* ------------------------------------------------ on_disconnect / on_leave
\* Lines 527-531 and 567-571: drop sid from players, ready and colors.
remove_player(r, sid) ==
    [players |-> ListRemove(r.players, sid),
     ready   |-> DictDel(r.ready, sid),
     colors  |-> DictDel(r.colors, sid)]

\* Lines 550-551: ready[sid] = False for every sid in players.
reset_ready(r) ==
    [r EXCEPT !.ready = [s \in (DOMAIN r.ready) \cup Range(r.players) |->
                            IF s \in Range(r.players) THEN FALSE ELSE r.ready[s]]]

\* del room_players[room_code]
DelKey(rk, rc) == SelectSeq(rk, LAMBDA k : k # rc)

\* The first room of room_players.items() whose players hold sid, as a set.
first_room_of(rk, rp, sid) ==
    {rk[i] : i \in {j \in DOMAIN rk :
                      /\ InPlayers(rp[rk[j]], sid)
                      /\ \A k \in 1..(j - 1) : ~InPlayers(rp[rk[k]], sid)}}

on_disconnect(sid) ==
    /\ Idle
    /\ sid \notin disconnected
    /\ disconnected' = disconnected \cup {sid}
    \* Socket.IO drops a closed connection from every room it had entered.
    /\ sio_rooms' = [rc \in Rooms |-> sio_rooms[rc] \ {sid}]
    /\ LET found == first_room_of(room_keys, room_players, sid)
       IN  IF found = {}
           THEN /\ out' = <<>>
                /\ UNCHANGED <<room_keys, room_players, rooms, started>>
           ELSE LET room_code == CHOOSE rc \in found : TRUE
                    r == remove_player(room_players[room_code], sid)
                IN  /\ out' = <<Emit(sid, "player_left", room_code, <<player_count(r)>>)>>
                    /\ started' = seats_kept(started, room_code,
                                              room_players[room_code], r)
                    /\ IF player_count(r) = 0
                       THEN /\ room_keys' = DelKey(room_keys, room_code)
                            /\ room_players' = [room_players EXCEPT
                                                   ![room_code] = EmptyRoom]
                            /\ UNCHANGED rooms
                       ELSE /\ room_players' = [room_players EXCEPT
                                                   ![room_code] = reset_ready(r)]
                            /\ rooms' = [rooms EXCEPT ![room_code].status =
                                            IF rooms[room_code].present
                                            THEN "waiting" ELSE @]
                            /\ UNCHANGED room_keys
    /\ UNCHANGED <<pc, loc>>
    /\ UNCHANGED ranked

on_leave(sid, room_code) ==
    /\ Idle
    /\ sid \notin disconnected
    /\ sio_rooms' = [sio_rooms EXCEPT ![room_code] = @ \ {sid}]
    /\ IF HasRoom(room_keys, room_code) /\ InPlayers(room_players[room_code], sid)
       THEN LET r == remove_player(room_players[room_code], sid)
            IN  /\ out' = <<Emit(sid, "player_left", room_code, <<player_count(r)>>)>>
                /\ started' = seats_kept(started, room_code,
                                          room_players[room_code], r)
                /\ IF player_count(r) = 0
                   THEN /\ room_keys' = DelKey(room_keys, room_code)
                        /\ room_players' = [room_players EXCEPT
                                               ![room_code] = EmptyRoom]
                   ELSE /\ room_players' = [room_players EXCEPT ![room_code] = r]
                        /\ UNCHANGED room_keys
       ELSE /\ out' = <<>>
            /\ UNCHANGED <<room_keys, room_players, started>>
    /\ UNCHANGED <<rooms, disconnected, pc, loc>>
    /\ UNCHANGED ranked

\* The events explored, for a set T of (connection, room code) pairs.
Step(T) ==
    \/ \E code \in {t[2] : t \in T} : room(code)
    \/ \E t \in T : on_join(t[1], t[2])
    \/ \E t \in T : on_toggle_ready(t[1], t[2])
    \/ \E t \in T : on_move(t[1], t[2])
    \/ \E sid \in {t[1] : t \in T} : on_disconnect(sid)
    \/ \E t \in T : on_leave(t[1], t[2])

\* Three connections on one room code.
OneRoom == Sids \X {"R1"}

\* Connection s1 on two room codes, connection s2 on the second.
TwoRooms == {<<"s1", "R1">>, <<"s1", "R2">>, <<"s2", "R2">>}

\* Two connections on one room code.
Pair == {"s1", "s2"} \X {"R1"}

Next == Step(OneRoom)

NextRooms == Step(TwoRooms)

Spec == Init /\ [][Next]_vars

SpecRooms == Init /\ [][NextRooms]_vars

NextPair == Step(Pair)

SpecPair == Init /\ [][NextPair]_vars

\* ------------------------------------------- on_join, statement by statement
\* With threaded handlers nothing orders the statements of two on_join calls;
\* each action below is one statement of lines 393-429, named by its line.

\* Line 393: the handler starts, join_room(room_code).
on_join_393(sid, room_code) ==
    /\ pc[sid] = "idle"
    /\ sid \notin disconnected
    /\ sio_rooms' = [sio_rooms EXCEPT ![room_code] = @ \cup {sid}]
    /\ loc' = [loc EXCEPT ![sid] = [NoLocals EXCEPT !.room_code = room_code]]
    /\ pc' = [pc EXCEPT ![sid] = "396"]
    /\ UNCHANGED <<room_keys, room_players, rooms, disconnected, started, out>>
    /\ UNCHANGED ranked

\* Line 396: if room_code not in room_players
on_join_396(sid) ==
    /\ pc[sid] = "396"
    /\ pc' = [pc EXCEPT ![sid] = IF HasRoom(room_keys, loc[sid].room_code)
                                 THEN "404" ELSE "397"]
    /\ UNCHANGED <<room_keys, room_players, rooms, sio_rooms, disconnected,
                   started, out, loc>>
    /\ UNCHANGED ranked

\* Line 397: room_players[room_code] = {'players': [], 'ready': {}, 'colors': {}}
on_join_397(sid) ==
    /\ pc[sid] = "397"
    /\ LET rc == loc[sid].room_code
       IN  /\ room_keys' = IF HasRoom(room_keys, rc) THEN room_keys
                           ELSE Append(room_keys, rc)
           /\ room_players' = [room_players EXCEPT ![rc] = EmptyRoom]
           /\ started' = seats_kept(started, rc, room_players[rc], EmptyRoom)
    /\ loc' = [loc EXCEPT ![sid].created = TRUE]
    /\ pc' = [pc EXCEPT ![sid] = "404"]
    /\ UNCHANGED <<rooms, sio_rooms, disconnected, out>>
    /\ UNCHANGED ranked

\* Line 404: if request.sid not in room_players[room_code]['players']
on_join_404(sid) ==
    /\ pc[sid] = "404"
    /\ pc' = [pc EXCEPT ![sid] =
                IF InPlayers(room_players[loc[sid].room_code], sid)
                THEN "408" ELSE "405"]
    /\ UNCHANGED <<room_keys, room_players, rooms, sio_rooms, disconnected,
                   started, out, loc>>
    /\ UNCHANGED ranked

\* Line 405: room_players[room_code]['players'].append(request.sid)
on_join_405(sid) ==
    /\ pc[sid] = "405"
    /\ room_players' = [room_players EXCEPT
                           ![loc[sid].room_code].players = Append(@, sid)]
    /\ pc' = [pc EXCEPT ![sid] = "406"]
    /\ UNCHANGED <<room_keys, rooms, sio_rooms, disconnected, started, out, loc>>
    /\ UNCHANGED ranked

\* Line 406: room_players[room_code]['ready'][request.sid] = False
on_join_406(sid) ==
    /\ pc[sid] = "406"
    /\ room_players' = [room_players EXCEPT
                           ![loc[sid].room_code].ready = DictSet(@, sid, FALSE)]
    /\ pc' = [pc EXCEPT ![sid] = "408"]
    /\ UNCHANGED <<room_keys, rooms, sio_rooms, disconnected, started, out, loc>>
    /\ UNCHANGED ranked

\* Line 408: player_count = len(room_players[room_code]['players'])
on_join_408(sid) ==
    /\ pc[sid] = "408"
    /\ loc' = [loc EXCEPT ![sid].player_count =
                  player_count(room_players[loc[sid].room_code])]
    /\ pc' = [pc EXCEPT ![sid] = "412"]
    /\ UNCHANGED <<room_keys, room_players, rooms, sio_rooms, disconnected,
                   started, out>>
    /\ UNCHANGED ranked

\* Lines 412-421: the colour for player_count, and emit('assign_color')
on_join_412(sid) ==
    /\ pc[sid] = "412"
    /\ LET rc == loc[sid].room_code
           n  == loc[sid].player_count
           r  == IF n = 1 \/ n = 2
                 THEN [room_players[rc] EXCEPT
                          !.colors = DictSet(@, sid, join_color(n))]
                 ELSE room_players[rc]
       IN  /\ room_players' = [room_players EXCEPT ![rc] = r]
           /\ started' = seats_kept(started, rc, room_players[rc], r)
           /\ out' = <<Emit(sid, "assign_color", sid, <<join_color(n)>>)>>
    /\ pc' = [pc EXCEPT ![sid] = "424"]
    /\ UNCHANGED <<room_keys, rooms, sio_rooms, disconnected, loc>>
    /\ UNCHANGED ranked

\* Lines 424-429: ready_count, and emit('player_status') to the room
on_join_424(sid) ==
    /\ pc[sid] = "424"
    /\ LET rc == loc[sid].room_code
       IN  out' = <<Emit(sid, "player_status", rc,
                         <<loc[sid].player_count, ready_count(room_players[rc]), 2>>)>>
    /\ pc' = [pc EXCEPT ![sid] = "idle"]
    /\ UNCHANGED <<room_keys, room_players, rooms, sio_rooms, disconnected,
                   started, loc>>
    /\ UNCHANGED ranked

\* The connections whose handlers are interleaved.
ConcSids == {"s1", "s2"}

NextConc ==
    \/ \E sid \in ConcSids, room_code \in Rooms : on_join_393(sid, room_code)
    \/ \E sid \in ConcSids : on_join_396(sid)
    \/ \E sid \in ConcSids : on_join_397(sid)
    \/ \E sid \in ConcSids : on_join_404(sid)
    \/ \E sid \in ConcSids : on_join_405(sid)
    \/ \E sid \in ConcSids : on_join_406(sid)
    \/ \E sid \in ConcSids : on_join_408(sid)
    \/ \E sid \in ConcSids : on_join_412(sid)
    \/ \E sid \in ConcSids : on_join_424(sid)

SpecConc == Init /\ [][NextConc]_vars

\* ----------------------------------- on_toggle_ready, statement by statement
\* Each action below is one statement of lines 434-469, named by its line; the
\* labels carry a t to keep them apart from those of on_join.

\* Lines 434-438: the handler starts; if room_code not in room_players: return
on_toggle_ready_436(sid, room_code) ==
    /\ pc[sid] = "idle"
    /\ sid \notin disconnected
    /\ loc' = [loc EXCEPT ![sid] = [NoLocals EXCEPT !.room_code = room_code]]
    /\ pc' = [pc EXCEPT ![sid] = IF HasRoom(room_keys, room_code)
                                 THEN "t440" ELSE "idle"]
    /\ UNCHANGED <<room_keys, room_players, rooms, sio_rooms, disconnected,
                   started, out>>
    /\ UNCHANGED ranked

\* Lines 440-442: if request.sid not in room_players[room_code]['ready']: return
on_toggle_ready_440(sid) ==
    /\ pc[sid] = "t440"
    /\ pc' = [pc EXCEPT ![sid] =
                IF sid \in DOMAIN room_players[loc[sid].room_code].ready
                THEN "t445" ELSE "idle"]
    /\ UNCHANGED <<room_keys, room_players, rooms, sio_rooms, disconnected,
                   started, out, loc>>
    /\ UNCHANGED ranked

\* Line 445: ready[request.sid] = not ready[request.sid]
on_toggle_ready_445(sid) ==
    /\ pc[sid] = "t445"
    /\ room_players' = [room_players EXCEPT
                           ![loc[sid].room_code].ready[sid] = ~@]
    /\ pc' = [pc EXCEPT ![sid] = "t447"]
    /\ UNCHANGED <<room_keys, rooms, sio_rooms, disconnected, started, out, loc>>
    /\ UNCHANGED ranked

\* Line 447: ready_count = sum(1 for ready in ...['ready'].values() if ready)
on_toggle_ready_447(sid) ==
    /\ pc[sid] = "t447"
    /\ loc' = [loc EXCEPT ![sid].ready_count =
                  ready_count(room_players[loc[sid].room_code])]
    /\ pc' = [pc EXCEPT ![sid] = "t448"]
    /\ UNCHANGED <<room_keys, room_players, rooms, sio_rooms, disconnected,
                   started, out>>
    /\ UNCHANGED ranked

\* Line 448: player_count = len(room_players[room_code]['players'])
on_toggle_ready_448(sid) ==
    /\ pc[sid] = "t448"
    /\ loc' = [loc EXCEPT ![sid].player_count =
                  player_count(room_players[loc[sid].room_code])]
    /\ pc' = [pc EXCEPT ![sid] = "t454"]
    /\ UNCHANGED <<room_keys, room_players, rooms, sio_rooms, disconnected,
                   started, out>>
    /\ UNCHANGED ranked

\* Lines 454-461: emit('player_status') to the room, then
\* if ready_count == 2 and player_count == 2
on_toggle_ready_454(sid) ==
    /\ pc[sid] = "t454"
    /\ out' = <<Emit(sid, "player_status", loc[sid].room_code,
                     <<loc[sid].player_count, loc[sid].ready_count, 2>>)>>
    /\ pc' = [pc EXCEPT ![sid] =
                IF loc[sid].ready_count = 2 /\ loc[sid].player_count = 2
                THEN "t463" ELSE "idle"]
    /\ UNCHANGED <<room_keys, room_players, rooms, sio_rooms, disconnected,
                   started, loc>>
    /\ UNCHANGED ranked

\* Line 463: emit('game_start') to the room
on_toggle_ready_463(sid) ==
    /\ pc[sid] = "t463"
    /\ out' = <<Emit(sid, "game_start", loc[sid].room_code, <<>>)>>
    /\ started' = [started EXCEPT ![loc[sid].room_code] = TRUE]
    /\ pc' = [pc EXCEPT ![sid] = "t467"]
    /\ UNCHANGED <<room_keys, room_players, rooms, sio_rooms, disconnected, loc>>
    /\ UNCHANGED ranked

\* Lines 466-469: UPDATE rooms SET status = 'playing', commit
on_toggle_ready_467(sid) ==
    /\ pc[sid] = "t467"
    /\ rooms' = [rooms EXCEPT ![loc[sid].room_code].status =
                    IF rooms[loc[sid].room_code].present THEN "playing" ELSE @]
    /\ pc' = [pc EXCEPT ![sid] = "idle"]
    /\ UNCHANGED <<room_keys, room_players, sio_rooms, disconnected, started,
                   out, loc>>
    /\ UNCHANGED ranked

\* Joins and toggles of two connections on one room code, interleaved
\* statement by statement.
NextToggle ==
    \/ room("R1")
    \/ \E sid \in ConcSids : on_join_393(sid, "R1")
    \/ \E sid \in ConcSids : on_join_396(sid)
    \/ \E sid \in ConcSids : on_join_397(sid)
    \/ \E sid \in ConcSids : on_join_404(sid)
    \/ \E sid \in ConcSids : on_join_405(sid)
    \/ \E sid \in ConcSids : on_join_406(sid)
    \/ \E sid \in ConcSids : on_join_408(sid)
    \/ \E sid \in ConcSids : on_join_412(sid)
    \/ \E sid \in ConcSids : on_join_424(sid)
    \/ \E sid \in ConcSids : on_toggle_ready_436(sid, "R1")
    \/ \E sid \in ConcSids : on_toggle_ready_440(sid)
    \/ \E sid \in ConcSids : on_toggle_ready_445(sid)
    \/ \E sid \in ConcSids : on_toggle_ready_447(sid)
    \/ \E sid \in ConcSids : on_toggle_ready_448(sid)
    \/ \E sid \in ConcSids : on_toggle_ready_454(sid)
    \/ \E sid \in ConcSids : on_toggle_ready_463(sid)
    \/ \E sid \in ConcSids : on_toggle_ready_467(sid)

SpecToggle == Init /\ [][NextToggle]_vars

\* -------------------------------------------------------------- Elo logic
K == 32

\* round(K * (actual - expected)) of lines 78-80 for a win and for a loss,
\* as Python evaluates it for opponent_elo - player_elo = d.
elo_table(d) ==
    CASE d = -400 -> <<3, -29>>
      [] d = -200 -> <<8, -24>>
      [] d = -16  -> <<15, -17>>
      [] d = 0    -> <<K \div 2, 0 - K \div 2>>
      [] d = 16   -> <<17, -15>>
      [] d = 200  -> <<24, -8>>
      [] d = 400  -> <<29, -3>>

\* calculate_elo_change that takes every game for a win.
calculate_elo_change_won(player_elo, opponent_elo, win) ==
    elo_table(opponent_elo - player_elo)[1]

calculate_elo_change(player_elo, opponent_elo, win) ==
    elo_table(opponent_elo - player_elo)[IF win THEN 1 ELSE 2]

\* get_bot_depth with the depths of two neighbouring bands exchanged.
get_bot_depth_exchanged(elo) ==
    IF elo < 600 THEN 2
    ELSE IF elo < 800 THEN 4
    ELSE IF elo < 1000 THEN 6
    ELSE IF elo < 1200 THEN 8
    ELSE IF elo < 1400 THEN 14
    ELSE IF elo < 1600 THEN 11
    ELSE IF elo < 1800 THEN 17
    ELSE IF elo < 2000 THEN 20
    ELSE IF elo < 2200 THEN 23
    ELSE 25

get_bot_depth(elo) ==
    IF elo < 600 THEN 2
    ELSE IF elo < 800 THEN 4
    ELSE IF elo < 1000 THEN 6
    ELSE IF elo < 1200 THEN 8
    ELSE IF elo < 1400 THEN 11
    ELSE IF elo < 1600 THEN 14
    ELSE IF elo < 1800 THEN 17
    ELSE IF elo < 2000 THEN 20
    ELSE IF elo < 2200 THEN 23
    ELSE 25

\* ------------------------------------------------------------ get_bot_move
\* What the engine does with a position: it answers a move, or lines 128-132
\* raise (spawn error, protocol error, timeout).
Oracle == Moves \cup {"fail"}

\* get_bot_move without the except branch's choice of a legal move.
get_bot_move_no_fallback(board_fen, elo, oracle) ==
    IF oracle # "fail" /\ oracle \in legal_moves(board_fen) THEN {oracle}
    ELSE {"None"}

\* The values get_bot_move can return.  engine.play answers no move for a
\* position without legal moves; the except branch returns
\* random.choice(legal_moves), or None when there is none.
get_bot_move(board_fen, elo, oracle) ==
    IF oracle # "fail"
    THEN IF oracle \in legal_moves(board_fen) THEN {oracle} ELSE {"None"}
    ELSE IF legal_moves(board_fen) # {} THEN legal_moves(board_fen)
         ELSE {"None"}

\* -------------------------------------------------------- /api/make-move
\* Number of rated games the account plays.
MaxGames == 2

\* Requests that are inside handle_game_over.
InFlight == {q \in Reqs : req[q].pc # "idle"}

\* Lines 289-290 and 298-299: a finished game goes to handle_game_over, which
\* answers; any other position is answered at lines 301-306.
answer(r) ==
    IF is_game_over(r.board) THEN [r EXCEPT !.pc = "312"]
    ELSE [r EXCEPT !.resp = "game_over: False"]

\* Lines 271-306 up to the call of handle_game_over.
make_move(q, board_fen, move_uci, oracle) ==
    /\ req[q].pc = "idle"
    /\ Len(games) + Cardinality(InFlight) < MaxGames
    /\ IF board_fen = BadFen
       THEN \* chess.Board(board_fen) raises outside the try block
            req' = [req EXCEPT ![q] = [NoReq EXCEPT !.resp = "500"]]
       ELSE IF move_uci = BadUci
       THEN req' = [req EXCEPT ![q] =
                       [NoReq EXCEPT !.board = board_fen, !.resp = "Coup invalide"]]
       ELSE IF move_uci \notin legal_moves(board_fen)
       THEN req' = [req EXCEPT ![q] =
                       [NoReq EXCEPT !.board = board_fen, !.resp = "Coup illégal"]]
       ELSE LET board == push(board_fen, move_uci)
            IN  IF is_game_over(board)
                THEN req' = [req EXCEPT ![q] = answer([NoReq EXCEPT !.board = board])]
                ELSE \E bot_move \in get_bot_move(board, session, oracle) :
                        req' = [req EXCEPT ![q] = answer(
                                   [NoReq EXCEPT
                                       !.board = IF bot_move # "None"
                                                 THEN push(board, bot_move)
                                                 ELSE board,
                                       !.bot_move = bot_move,
                                       !.asked = board,
                                       !.oracle = oracle,
                                       !.depth = get_bot_depth(session)])]
    /\ UNCHANGED <<users, games, session, probe>>
    /\ UNCHANGED lobby

\* ------------------------------------------------------- handle_game_over
\* Lines 316-324: player_won is True, False or None.
player_won(result_) ==
    IF result_ = "1-0" THEN "True" ELSE IF result_ = "0-1" THEN "False" ELSE "None"

\* Lines 326-331 with a draw rated as a game that was not won.
elo_change_draw_rated(elo_before, bot_elo, result_) ==
    calculate_elo_change(elo_before, bot_elo, player_won(result_) = "True")

\* Lines 326-331.
elo_change(elo_before, bot_elo, result_) ==
    IF player_won(result_) # "None"
    THEN calculate_elo_change(elo_before, bot_elo, player_won(result_) = "True")
    ELSE 0

\* max(a, b)
max(a, b) == IF a >= b THEN a ELSE b

\* Lines 309-312: result = board.result(); SELECT * FROM users WHERE id = ?
handle_game_over_312(q) ==
    /\ req[q].pc = "312"
    /\ req' = [req EXCEPT ![q].user = users, ![q].pc = "313"]
    /\ UNCHANGED <<users, games, session, probe>>
    /\ UNCHANGED lobby

\* Lines 313-357: the new values are computed from the row read at line 312;
\* the UPDATE and the INSERT are committed together at line 345.
handle_game_over_313(q) ==
    /\ req[q].pc = "313"
    /\ LET user       == req[q].user
           result_    == result(req[q].board)
           bot_elo    == user.elo
           elo_before == user.elo
           change     == elo_change(elo_before, bot_elo, result_)
           elo_after  == elo_before + change
           games_won  == user.games_won + (IF player_won(result_) = "True" THEN 1 ELSE 0)
           peak_elo   == max(user.peak_elo, elo_after)
       IN  /\ users' = [elo |-> elo_after, peak_elo |-> peak_elo,
                        games_played |-> users.games_played + 1,
                        games_won |-> games_won]
           /\ games' = Append(games, [bot_elo |-> bot_elo, result |-> result_,
                                      elo_before |-> elo_before,
                                      elo_after |-> elo_after,
                                      elo_change |-> change])
           /\ session' = elo_after
           /\ req' = [req EXCEPT ![q].pc = "idle", ![q].resp = "game_over: True"]
    /\ UNCHANGED probe
    /\ UNCHANGED lobby

NextRanked ==
    \/ \E q \in Reqs, board_fen \in BoardInputs, move_uci \in MoveInputs,
          oracle \in Oracle : make_move(q, board_fen, move_uci, oracle)
    \/ \E q \in Reqs : handle_game_over_312(q)
    \/ \E q \in Reqs : handle_game_over_313(q)

SpecRanked == Init /\ [][NextRanked]_vars

\* ----------------------------------------------------- get_bot_depth alone
\* The ratings get_bot_depth is applied to: EloLow below zero up to EloHigh.
EloLow  == 50
EloHigh == 2300
Elos == (0 - EloLow)..EloHigh

InitDepth ==
    /\ InitLobby
    /\ InitRanked
    /\ probe \in {[NoProbe EXCEPT !.elo = e] : e \in Elos}

\* Line 130: depth = get_bot_depth(elo)
depth_call ==
    /\ ~probe.called
    /\ probe' = [probe EXCEPT !.depth = get_bot_depth(probe.elo), !.called = TRUE]
    /\ UNCHANGED <<users, games, session, req>>
    /\ UNCHANGED lobby

SpecDepth == InitDepth /\ [][depth_call]_vars

\* ----------------------------------------------------------------- claims
\* The connections holding a colour in a room entry.
Holders(r, color) == {s \in DOMAIN r.colors : r.colors[s] = color}

\* The emissions of an event among those of the last handler.
Emitted(o, event) == {i \in DOMAIN o : o[i].event = event}

\* The colour whose turn it is in a position.
SideToMove(board) == IF turn(board) THEN "white" ELSE "black"

\* C1: in every reachable state of every room at most one connection holds
\* White and at most one holds Black.
C1_OneHolderPerSeat ==
    \A rc \in Rooms :
        /\ Cardinality(Holders(room_players[rc], "white")) <= 1
        /\ Cardinality(Holders(room_players[rc], "black")) <= 1

\* C2: a move is applied and broadcast only when the submitting connection holds
\* the colour that is to move in the position the server holds for the room.
C2_MoveOnlyBySideToMove ==
    [][\A sid \in Sids, rc \in Rooms :
          (on_move(sid, rc) /\ Emitted(out', "move_made") # {} /\ out'[1].sid = sid)
          => /\ sid \in DOMAIN room_players[rc].colors
             /\ room_players[rc].colors[sid] = SideToMove(rooms[rc].board_state)]_vars
\* C3: once game_start has been broadcast in a room and both seats have been
\* kept since, no step broadcasts game_start in that room again.
C3_GameStartOnce ==
    [][\A rc \in Rooms :
          started[rc] => \A i \in Emitted(out', "game_start") : out'[i].to # rc]_vars

\* C4: a join by a connection already in the roster of the room leaves the
\* roster, the roles and the readiness flags of that room as they were.
C4_JoinIdempotent ==
    [][\A sid \in Sids, rc \in Rooms :
          (on_join(sid, rc) /\ InPlayers(room_players[rc], sid))
          => room_players'[rc] = room_players[rc]]_vars

\* A leave or a disconnect of sid takes it out of the roster of rc.
Departs(sid, rc) ==
    /\ on_leave(sid, rc) \/ on_disconnect(sid)
    /\ InPlayers(room_players[rc], sid)
    /\ ~InPlayers(room_players'[rc], sid)

\* C5: after a leave or a disconnect that vacates the White or the Black seat
\* of a room whose roster stays non-empty, the status of the room is waiting
\* and every remaining connection holding a colour has readiness false.
C5_VacatedSeatResets ==
    [][\A sid \in Sids, rc \in Rooms :
          (/\ Departs(sid, rc)
           /\ sid \in DOMAIN room_players[rc].colors
           /\ room_players'[rc].players # <<>>)
          => /\ rooms'[rc].status = "waiting"
             /\ \A s \in DOMAIN room_players'[rc].colors :
                    ~room_players'[rc].ready[s]]_vars

\* C6: after every accepted move the persisted position of the room is the
\* position the server held before the event with the move applied to it.
C6_ServerPositionIsBasis ==
    [][\A sid \in Sids, rc \in Rooms :
          (/\ on_move(sid, rc)
           /\ Emitted(out', "move_made") # {}
           /\ rooms[rc].present)
          => rooms'[rc].board_state = push(rooms[rc].board_state, out'[1].data[1])]_vars

\* Both seats of a room entry are held.
BothSeatsFilled(r) == Holders(r, "white") # {} /\ Holders(r, "black") # {}

\* Both seats of a room entry are held and every holder has readiness true.
BothSeatedReady(r) ==
    /\ BothSeatsFilled(r)
    /\ \A s \in DOMAIN r.colors : s \in DOMAIN r.ready /\ r.ready[s]

\* C7: when a toggle_ready of a seated connection leaves both seats held and
\* both holders ready, game_start is broadcast to the room and a persisted
\* room gets status playing, whatever the number of spectators.
C7_BothReadyStarts ==
    [][\A sid \in Sids, rc \in Rooms :
          (/\ on_toggle_ready(sid, rc)
           /\ sid \in DOMAIN room_players[rc].colors
           /\ ~started[rc]
           /\ BothSeatedReady(room_players'[rc]))
          => /\ \E i \in Emitted(out', "game_start") : out'[i].to = rc
             /\ rooms[rc].present => rooms'[rc].status = "playing"]_vars

\* C8: for a room with both seats filled, the disconnect of the first seated
\* connection leaves the room in the registry with status waiting, and the
\* disconnect of the second one, the first being gone, removes the room.
C8_SequentialDisconnects ==
    [][\A sid \in Sids, rc \in Rooms :
          (/\ on_disconnect(sid)
           /\ HasRoom(room_keys, rc)
           /\ BothSeatsFilled(room_players[rc])
           /\ Range(room_players[rc].players) = DOMAIN room_players[rc].colors
           /\ sid \in DOMAIN room_players[rc].colors)
          => LET others == (DOMAIN room_players[rc].colors) \ {sid}
             IN  /\ others \cap disconnected = {}
                    => /\ HasRoom(room_keys', rc)
                       /\ rooms'[rc].status = "waiting"
                 /\ others \subseteq disconnected
                    => ~HasRoom(room_keys', rc)]_vars
\* C9: a toggle_ready from a connection of the roster that holds no colour, or
\* from any connection while the status of the room is playing, flips no
\* readiness flag, changes no status and leaves the ready count as it was.
C9_ToggleOnlySeatedBeforeStart ==
    [][\A sid \in Sids, rc \in Rooms :
          (/\ on_toggle_ready(sid, rc)
           /\ InPlayers(room_players[rc], sid)
           /\ \/ sid \notin DOMAIN room_players[rc].colors
              \/ rooms[rc].status = "playing")
          => /\ room_players'[rc].ready = room_players[rc].ready
             /\ rooms' = rooms
             /\ ready_count(room_players'[rc]) = ready_count(room_players[rc])]_vars
\* C10: at most one of the interleaved joins creates the entry of a room code;
\* and once the joins have returned, every connection that joined a room code
\* is in the roster and the readiness map of that entry, and no seat has two
\* holders.
C10_SingleCreation ==
    \A rc \in Rooms :
        /\ Cardinality({s \in Sids : loc[s].room_code = rc /\ loc[s].created}) <= 1
        /\ Idle =>
             /\ \A s \in sio_rooms[rc] :
                   /\ InPlayers(room_players[rc], s)
                   /\ s \in DOMAIN room_players[rc].ready
             /\ Cardinality(Holders(room_players[rc], "white")) <= 1
             /\ Cardinality(Holders(room_players[rc], "black")) <= 1
\* A toggle_ready handler of connection s has decided to broadcast game_start
\* to room rc (it is at line 463) or has just done so.
Starting(s, rc) == pc[s] \in {"t463", "t467"} /\ loc[s].room_code = rc

\* C11: when the connection holding White and the connection holding Black
\* of a room run toggle_ready at the same time, at most one of the two
\* handlers broadcasts game_start, as in each of the two orders in which the
\* handlers can run one after the other.
C11_OneGameStart ==
    \A rc \in Rooms : \A w \in Holders(room_players[rc], "white") :
        \A b \in Holders(room_players[rc], "black") :
            ~(Starting(w, rc) /\ Starting(b, rc))

\* The depths of the bands of get_bot_depth, in ascending order.
Depths == <<2, 4, 6, 8, 11, 14, 17, 20, 23, 25>>

\* C12: the depth get_bot_depth gives a rating is one of the ascending band
\* depths, is at most the depth of every rating that is not lower, and the
\* depth of 1000 is below the depth of 1800.
C12_DepthMonotonic ==
    probe.called =>
        /\ \E i \in DOMAIN Depths : probe.depth = Depths[i]
        /\ \A i, j \in DOMAIN Depths : i < j => Depths[i] < Depths[j]
        /\ \A b \in Elos : probe.elo <= b => probe.depth <= get_bot_depth(b)
        /\ probe.elo = 1000 => probe.depth < get_bot_depth(1800)

\* get_bot_depth has been applied to the rating 1000.
C12_Witness == probe.called /\ probe.elo = 1000

\* C13: get_bot_move is never given a position without legal moves, and when
\* the engine fails on the position it is given, the move returned is not None
\* and is a legal move of that position.
C13_FallbackLegal ==
    \A q \in Reqs :
        req[q].asked # NoCall =>
            /\ legal_moves(req[q].asked) # {}
            /\ req[q].oracle = "fail" =>
                  /\ req[q].bot_move # "None"
                  /\ req[q].bot_move \in legal_moves(req[q].asked)

\* The engine failed on a request and the bot still moved.
C13_Witness ==
    \E q \in Reqs :
        /\ req[q].asked # NoCall
        /\ req[q].oracle = "fail"
        /\ req[q].bot_move \in legal_moves(req[q].asked)

\* C14: every drawn game is recorded with a rating change of 0 and a rating
\* after equal to the rating before, and while the drawn game is the last one
\* recorded the rating of the account is that rating.
C14_DrawKeepsRating ==
    \A i \in DOMAIN games :
        games[i].result = "1/2-1/2" =>
            /\ games[i].elo_change = 0
            /\ games[i].elo_after = games[i].elo_before
            /\ i = Len(games) => users.elo = games[i].elo_before

\* A drawn game has been recorded.
C14_Witness == \E i \in DOMAIN games : games[i].result = "1/2-1/2"

\* C15: a game against an opponent rated as the player changes the rating
\* by +16 when won and by -16 when lost, and the rating after is the rating
\* before plus that change; a win at 1000 gives 1016.
C15_EqualRatings ==
    \A i \in DOMAIN games :
        games[i].bot_elo = games[i].elo_before =>
            /\ games[i].result = "1-0" => games[i].elo_change = 16
            /\ games[i].result = "0-1" => games[i].elo_change = -16
            /\ games[i].elo_after = games[i].elo_before + games[i].elo_change
            /\ (games[i].result = "1-0" /\ games[i].elo_before = 1000)
                  => games[i].elo_after = 1016 /\ (i = Len(games) => users.elo = 1016)

\* A game won at 1000 and a game lost have been recorded.
C15_Witness ==
    /\ \E i \in DOMAIN games :
          /\ games[i].result = "1-0"
          /\ games[i].elo_before = 1000
          /\ games[i].bot_elo = 1000
    /\ \E i \in DOMAIN games : games[i].result = "0-1"

\* C16: every step leaves the stored peak rating equal to the larger of the
\* peak before the step and the rating after it, so the peak never decreases
\* and is never below the rating, also when two game-end updates overlap.
C16_PeakMonotonic ==
    [][users'.peak_elo = max(users.peak_elo, users'.elo)]_vars

\* The move event of sid on rc is rejected for one of the four reasons: the
\* room is unknown, the game has not started, or the move sent with a
\* well-formed position is malformed or illegal.
Rejected(sid, rc) ==
    /\ on_move(sid, rc)
    /\ \/ ~HasRoom(room_keys, rc)
       \/ ready_count(room_players[rc]) < 2
       \/ player_count(room_players[rc]) < 2
       \/ \E move \in MoveInputs, board_fen \in Positions :
             /\ move = BadUci \/ move \notin legal_moves(board_fen)
             /\ apply_move(sid, rc, move, board_fen)

\* C17: a rejected move event emits one error, to the submitting connection
\* only, emits nothing to the room, and leaves the registry, the roster, the
\* readiness flags and the rooms table (position and status) as they were.
C17_RejectedMoveChangesNothing ==
    [][\A sid \in Sids, rc \in Rooms :
          Rejected(sid, rc)
          => /\ Len(out') = 1
             /\ out'[1].event = "error"
             /\ out'[1].sid = sid
             /\ out'[1].to = sid
             /\ room_keys' = room_keys
             /\ room_players' = room_players
             /\ rooms' = rooms]_vars

\* An illegal move has just been refused in a room whose game is on.
C17_Witness ==
    /\ Len(out) = 1
    /\ out[1].event = "error"
    /\ out[1].data = <<"Coup illégal">>

\* C18: when a move is accepted in a room where one connection holds White
\* and one holds Black, both of them have readiness true: the flags of
\* connections without a colour do not count.
C18_MoveOnlyWhenSeatedReady ==
    [][\A sid \in Sids, rc \in Rooms :
          (/\ on_move(sid, rc)
           /\ Emitted(out', "move_made") # {}
           /\ out'[1].sid = sid
           /\ Cardinality(Holders(room_players[rc], "white")) = 1
           /\ Cardinality(Holders(room_players[rc], "black")) = 1)
          => BothSeatedReady(room_players[rc])]_vars

\* C19: a leave or a disconnect of a connection of the roster that holds no
\* colour leaves the readiness flags and the colours of the seated
\* connections and the status of the room as they were.
C19_SpectatorDeparture ==
    [][\A sid \in Sids, rc \in Rooms :
          (Departs(sid, rc) /\ sid \notin DOMAIN room_players[rc].colors)
          => /\ room_players'[rc].colors = room_players[rc].colors
             /\ \A s \in DOMAIN room_players[rc].colors :
                   /\ s \in DOMAIN room_players'[rc].ready
                   /\ room_players'[rc].ready[s] = room_players[rc].ready[s]
             /\ rooms'[rc].status = rooms[rc].status]_vars

\* C20: a connection whose disconnect has been handled is in no roster, no
\* readiness map and no colour map of any room.
C20_DisconnectedNowhere ==
    \A s \in disconnected : \A rc \in Rooms :
        /\ ~InPlayers(room_players[rc], s)
        /\ s \notin DOMAIN room_players[rc].ready
        /\ s \notin DOMAIN room_players[rc].colors

\* C21: after every accepted move in a room that has a row, the current_turn
\* of the row names the colour that is to move in the board_state of the row.
C21_TurnColumnNamesSideToMove ==
    [][\A sid \in Sids, rc \in Rooms :
          (/\ on_move(sid, rc)
           /\ Emitted(out', "move_made") # {}
           /\ out'[1].sid = sid
           /\ rooms[rc].present)
          => rooms'[rc].current_turn = SideToMove(rooms'[rc].board_state)]_vars
====
